---- MODULE Spec2Model ----
(***************************************************************************)
(* WhereHaveIBeen gateway (app.py): the Flask session (a dict carried in   *)
(* the signed cookie) and the handlers that read and write it, with the    *)
(* OwnTracks backend as a black box that answers each call with a status   *)
(* and a body, or fails on transport.                                      *)
(*                                                                         *)
(* Python strings are sequences of one-character strings.  JSON values and *)
(* session values are records [kind, v] so that Python's None, strings and *)
(* numbers stay distinct and comparable.                                   *)
(***************************************************************************)
EXTENDS Integers, Sequences, FiniteSets, TLC

VARIABLES
    session,    \* the Flask session dict after the last request
    prev,       \* the session dict the last request started from
    req,        \* the last request: handler, inputs, backend outcome
    resp,       \* the response the last request returned to the client
    call,       \* the backend call the last request made (or NoCall)
    accepted,   \* history: the pair the backend last accepted (200 login, 201 register)
    saved,      \* history: the preferences last saved since the session was last cleared
    signedOut,  \* history: [creds, prefs]: a sign_out happened and since then no
                \* login/registration was accepted (creds), no settings were saved (prefs)
    cleared,    \* history: a sign_out or an accepted deletion was answered and since
                \* then no login/registration was accepted
    inflight,   \* the requests being handled: what each read from the cookie
    env         \* the deployment: the server's zone and interpreter

vars == <<session, prev, req, resp, call, accepted, saved, signedOut, cleared,
          inflight, env>>

----------------------------------------------------------------------------
(* Characters and strings *)

UpperSeq == <<"A","B","C","D","E","F","G","H","I","J","K","L","M",
              "N","O","P","Q","R","S","T","U","V","W","X","Y","Z">>
LowerSeq == <<"a","b","c","d","e","f","g","h","i","j","k","l","m",
              "n","o","p","q","r","s","t","u","v","w","x","y","z">>
DigitSeq == <<"0","1","2","3","4","5","6","7","8","9">>

Range(s) == {s[i] : i \in DOMAIN s}

UpperChars == Range(UpperSeq)
LowerChars == Range(LowerSeq)
DigitChars == Range(DigitSeq)
\* str.strip() with no argument removes these (the ones the inputs use)
Whitespace == {" ", "\t", "\n"}

\* c repeated n times
Rep(c, n) == [i \in 1..n |-> c]

RECURSIVE lstrip(_)
lstrip(s) ==
    IF s # <<>> /\ Head(s) \in Whitespace THEN lstrip(Tail(s)) ELSE s

RECURSIVE rstrip(_)
rstrip(s) ==
    IF s # <<>> /\ s[Len(s)] \in Whitespace
    THEN rstrip(SubSeq(s, 1, Len(s) - 1)) ELSE s

strip(s) == rstrip(lstrip(s))

----------------------------------------------------------------------------
(* JSON / Python values *)

JNull == [kind |-> "null", v |-> <<>>]
JStr(s) == [kind |-> "string", v |-> s]
JNum(digits) == [kind |-> "number", v |-> digits]
JTrue == [kind |-> "bool", v |-> <<"True">>]

\* Python truthiness of the values the handlers test with `not x`
Falsy(x) == x = JNull \/ (x.kind = "string" /\ x.v = <<>>)

\* dict.get(k, default) on a dict modelled as a function
DictGet(d, k, default) == IF k \in DOMAIN d THEN d[k] ELSE default

\* d[k] = v
DictSet(d, k, v) == [x \in DOMAIN d \cup {k} |-> IF x = k THEN v ELSE d[x]]

EmptyDict == [x \in {} |-> JNull]
----------------------------------------------------------------------------
(* The session dict *)

\* session.get(k): None when the key is absent
SessionGet(s, k) == DictGet(s, k, JNull)

\* session.clear()
SessionClearKeepsSettings(s) ==
    [k \in DOMAIN s \cap {"circle_size", "osrm_url"} |-> s[k]]
SessionClear(s) == EmptyDict

\* session.permanent = True stores the flag under the key _permanent
SetPermanent(s) == DictSet(s, "_permanent", JTrue)

\* session.permanent = True; session["username"] = ...; session["password"] = ...
EstablishBroken(s, username, password) ==
    DictSet(SetPermanent(s), "username", JStr(username))
EstablishAfterClear(s, username, password) ==
    DictSet(DictSet(SetPermanent(EmptyDict), "username", JStr(username)),
            "password", JStr(password))
EstablishSession(s, username, password) ==
    DictSet(DictSet(SetPermanent(s), "username", JStr(username)),
            "password", JStr(password))

----------------------------------------------------------------------------
(* Backend calls and their outcomes *)

NoCall == [endpoint |-> "none", via |-> "none", user |-> JNull, pass |-> JNull]
BasicAuthCall(endpoint, user, pass) ==
    [endpoint |-> endpoint, via |-> "basic-auth", user |-> user, pass |-> pass]
JsonCall(endpoint, user, pass) ==
    [endpoint |-> endpoint, via |-> "json", user |-> user, pass |-> pass]

\* What a backend call can come back with: requests raises RequestException
\* (connection error, timeout), or a response with a status and a body that
\* response.json() can or cannot parse.
NoOutcome == [kind |-> "none", status |-> 0, isJson |-> FALSE, body |-> EmptyDict]
TransportFailure ==
    [kind |-> "exception", status |-> 0, isJson |-> FALSE, body |-> EmptyDict]
BackendResponse(status, isJson, body) ==
    [kind |-> "response", status |-> status, isJson |-> isJson, body |-> body]

----------------------------------------------------------------------------
(* Responses to the client *)

INTERNAL_ERROR_MESSAGE == <<"An internal error has occurred.">>

Msg(key, text) == [x \in {key} |-> JStr(text)]

NoResponse == [status |-> 0, kind |-> "none", body |-> EmptyDict]
\* jsonify(body), status
Jsonify(body, status) == [status |-> status, kind |-> "json", body |-> body]
\* render_template("index.html", login_error=text), status
LoginErrorPage(text, status) ==
    [status |-> status, kind |-> "html", body |-> Msg("login_error", text)]
\* redirect("/")
RedirectRoot == [status |-> 302, kind |-> "redirect", body |-> Msg("Location", <<"/">>)]
\* what Flask answers when the view raises or returns nothing
FlaskError(status) == [status |-> status, kind |-> "html", body |-> EmptyDict]
InternalErrorWithCause ==
    Jsonify(Msg("error", <<"HTTPConnectionPool: Max retries exceeded">>), 500)
InternalError == Jsonify(Msg("error", INTERNAL_ERROR_MESSAGE), 500)

\* what a handler leaves behind
Result(s, r, c) == [session |-> s, resp |-> r, call |-> c]

----------------------------------------------------------------------------
(* GET /sign_out *)

sign_out(s) == Result(SessionClear(s), RedirectRoot, NoCall)

----------------------------------------------------------------------------
(* /login *)

\* line 75: anything but 200 from the validation probe is a refusal
login_never_rejects(validation) == FALSE
login_rejected(validation) == validation.status # 200

login(s, method, form, outcome) ==
    IF method # "POST"
    THEN \* the view returns None: Flask answers 500
         Result(s, FlaskError(500), NoCall)
    ELSE IF ~({"username", "password"} \subseteq DOMAIN form)
    THEN \* request.form[...] raises BadRequestKeyError: Flask answers 400
         Result(s, FlaskError(400), NoCall)
    ELSE
      LET username == form["username"]
          password == form["password"]
          c == BasicAuthCall("/api/0/last", username, password)
      IN  IF outcome.kind = "exception"
          THEN Result(s, LoginErrorPage(<<"Could not connect to server.">>, 500), c)
          ELSE IF login_rejected(outcome)
          THEN Result(s, LoginErrorPage(<<"Invalid username or password.">>, 401), c)
          ELSE Result(EstablishSession(s, username.v, password.v), RedirectRoot, c)

----------------------------------------------------------------------------
(* POST /register *)

MaxUsernameLen == 50
MinPasswordLen == 12

UsernameChars == LowerChars \cup UpperChars \cup DigitChars \cup {"_", "-"}

AllIn(str, chars) == \A i \in DOMAIN str : str[i] \in chars

\* re.match(r'^[a-zA-Z0-9_-]{1,50}$', username): in Python `$` also matches
\* just before a newline that ends the string
UsernameMatches(username) ==
    LET ok(str) == Len(str) \in 1..MaxUsernameLen /\ AllIn(str, UsernameChars)
    IN  \/ ok(username)
        \/ /\ username # <<>>
           /\ username[Len(username)] = "\n"
           /\ ok(SubSeq(username, 1, Len(username) - 1))

\* re.search(r'[...]', password)
Contains(str, chars) == \E i \in DOMAIN str : str[i] \in chars

\* lines 93-94: the fields the handler reads from the JSON body
register_username_unstripped(data) ==
    IF DOMAIN data # {} THEN DictGet(data, "username", JStr(<<>>)).v ELSE <<>>
register_username(data) ==
    IF DOMAIN data # {} THEN strip(DictGet(data, "username", JStr(<<>>)).v) ELSE <<>>
register_password(data) ==
    IF DOMAIN data # {} THEN DictGet(data, "password", JStr(<<>>)).v ELSE <<>>

\* lines 96-106: the first local check that fails, or <<>> when all pass
register_error(username, password) ==
    IF username = <<>> \/ ~UsernameMatches(username)
    THEN <<"Username must be 1-50 characters (letters, numbers, hyphens, underscores).">>
    ELSE IF Len(password) < MinPasswordLen
    THEN <<"Password must be at least 12 characters.">>
    ELSE IF ~Contains(password, UpperChars)
    THEN <<"Password must contain an uppercase letter.">>
    ELSE IF ~Contains(password, LowerChars)
    THEN <<"Password must contain a lowercase letter.">>
    ELSE IF ~Contains(password, DigitChars)
    THEN <<"Password must contain a number.">>
    ELSE <<>>

\* line 111: the status that establishes the session
register_created_any_2xx(response) == response.status \in {200, 201}
register_created(response) == response.status = 201

register(s, data, outcome) ==
    LET username == register_username(data)
        password == register_password(data)
        error == register_error(username, password)
        c == JsonCall("/api/register", JStr(username), JStr(password))
    IN  IF error # <<>>
        THEN Result(s, Jsonify(Msg("error", error), 400), NoCall)
        ELSE IF outcome.kind = "exception"
        THEN Result(s, InternalError, c)
        ELSE
          LET s2 == IF register_created(outcome)
                    THEN EstablishSession(s, username, password) ELSE s
          IN  IF outcome.isJson
              THEN Result(s2, Jsonify(outcome.body, outcome.status), c)
              ELSE \* response.json() raises: caught, the session write stays
                   Result(s2, InternalError, c)

----------------------------------------------------------------------------
(* POST /delete-account *)

\* line 145: the status that clears the session
delete_cleared_always(response) == TRUE
delete_cleared(response) == response.status = 200

\* lines 128-129
delete_not_logged_in_never(s) == FALSE
delete_not_logged_in(s) == Falsy(SessionGet(s, "username"))

delete_account(s, data, outcome) ==
    LET username == SessionGet(s, "username")
        password == IF DOMAIN data # {}
                    THEN DictGet(data, "password", JStr(<<>>)) ELSE JStr(<<>>)
        c == JsonCall("/api/delete-account", username, password)
    IN  IF delete_not_logged_in(s)
        THEN Result(s, Jsonify(Msg("error", <<"Not logged in.">>), 401), NoCall)
        ELSE IF Falsy(password)
        THEN Result(s, Jsonify(Msg("error", <<"Password is required.">>), 400), NoCall)
        ELSE IF outcome.kind = "exception"
        THEN Result(s, InternalError, c)
        ELSE
          LET s2 == IF delete_cleared(outcome) THEN SessionClear(s) ELSE s
          IN  IF outcome.isJson
              THEN Result(s2, Jsonify(outcome.body, outcome.status), c)
              ELSE Result(s2, InternalError, c)

----------------------------------------------------------------------------
(* POST /save_settings, GET /get_settings *)

save_settings_swapped(s, data) ==
    Result(DictSet(DictSet(SetPermanent(s),
                           "circle_size", DictGet(data, "osrmURL", JNull)),
                   "osrm_url", DictGet(data, "circleSize", JNull)),
           Jsonify(Msg("message", <<"Settings saved successfully">>), 200),
           NoCall)
save_settings(s, data) ==
    LET circle_size == DictGet(data, "circleSize", JNull)
        osrm_url == DictGet(data, "osrmURL", JNull)
    IN  Result(DictSet(DictSet(SetPermanent(s), "circle_size", circle_size),
                       "osrm_url", osrm_url),
               Jsonify(Msg("message", <<"Settings saved successfully">>), 200),
               NoCall)

Settings(circleSize, osrmURL) ==
    [x \in {"circleSize", "osrmURL"} |->
        IF x = "circleSize" THEN circleSize ELSE osrmURL]

get_settings(s) ==
    Result(s, Jsonify(Settings(SessionGet(s, "circle_size"),
                               SessionGet(s, "osrm_url")), 200), NoCall)
----------------------------------------------------------------------------
(* GET /usersdevices *)

\* str.lower() on the characters of the model's alphabet
LowerChar(c) ==
    IF c \in UpperChars
    THEN LowerSeq[CHOOSE i \in DOMAIN UpperSeq : UpperSeq[i] = c]
    ELSE c
lower(str) == [i \in DOMAIN str |-> LowerChar(str[i])]

\* response.raise_for_status() raises HTTPError for 4xx and 5xx
RaisesOnServerErrorOnly(response) == response.status \in 500..599
RaisesForStatus(response) == response.status \in 400..599

\* line 249: entry.get("username", "").lower() == username.lower()
entry_matches_case_sensitive(entry, username) ==
    DictGet(entry, "username", JStr(<<>>)).v = username
entry_matches(entry, username) ==
    lower(DictGet(entry, "username", JStr(<<>>)).v) = lower(username)

\* line 249: [entry for entry in data if ...]
RECURSIVE filter_devices(_, _)
filter_devices(data, username) ==
    IF data = <<>> THEN <<>>
    ELSE IF entry_matches(Head(data), username)
    THEN <<Head(data)>> \o filter_devices(Tail(data), username)
    ELSE filter_devices(Tail(data), username)

get_users_devices(s, outcome) ==
    LET username == SessionGet(s, "username")
        c == BasicAuthCall("/api/0/last", username, SessionGet(s, "password"))
    IN  IF outcome.kind = "exception"
        THEN Result(s, InternalError, c)
        ELSE IF RaisesForStatus(outcome)
        THEN Result(s, InternalError, c)
        ELSE IF ~outcome.isJson
        THEN Result(s, InternalError, c)
        ELSE IF outcome.body # <<>> /\ username = JNull
        THEN \* None.lower() raises AttributeError on the first entry
             Result(s, InternalError, c)
        ELSE Result(s, Jsonify(filter_devices(outcome.body, username.v), 200), c)

----------------------------------------------------------------------------
(* GET /locations: the time conversion *)

IsDigits(str) == AllIn(str, DigitChars)

DigitValue(c) == (CHOOSE i \in DOMAIN DigitSeq : DigitSeq[i] = c) - 1

\* int(str) for a string of digits
RECURSIVE Number(_)
Number(str) ==
    IF str = <<>> THEN 0
    ELSE 10 * Number(SubSeq(str, 1, Len(str) - 1)) + DigitValue(str[Len(str)])

RECURSIVE Pow10(_)
Pow10(n) == IF n = 0 THEN 1 ELSE 10 * Pow10(n - 1)

\* '%0*d' % (width, n)
Pad(n, width) ==
    [i \in 1..width |-> DigitSeq[((n \div Pow10(width - i)) % 10) + 1]]

IsLeap(year) == year % 4 = 0 /\ (year % 100 # 0 \/ year % 400 = 0)

DaysInMonth(year, month) ==
    IF month = 2 THEN (IF IsLeap(year) THEN 29 ELSE 28)
    ELSE IF month \in {4, 6, 9, 11} THEN 30 ELSE 31

NotADate == [ok |-> FALSE]

\* the time part HH:MM[:SS[.fff[fff]]], or NotADate
ParseTime(str) ==
    LET n == Len(str)
        shape ==
            /\ n \in {5, 8, 12, 15}
            /\ IsDigits(SubSeq(str, 1, 2)) /\ str[3] = ":"
            /\ IsDigits(SubSeq(str, 4, 5))
            /\ n >= 8 => (str[6] = ":" /\ IsDigits(SubSeq(str, 7, 8)))
            /\ n >= 12 => (str[9] = "." /\ IsDigits(SubSeq(str, 10, n)))
    IN  IF ~shape THEN NotADate
        ELSE
          LET hour == Number(SubSeq(str, 1, 2))
              minute == Number(SubSeq(str, 4, 5))
              second == IF n >= 8 THEN Number(SubSeq(str, 7, 8)) ELSE 0
              micro == IF n = 12 THEN 1000 * Number(SubSeq(str, 10, 12))
                       ELSE IF n = 15 THEN Number(SubSeq(str, 10, 15)) ELSE 0
          IN  IF hour > 23 \/ minute > 59 \/ second > 59 THEN NotADate
              ELSE [ok |-> TRUE, hour |-> hour, minute |-> minute,
                    second |-> second, micro |-> micro]

\* the UTC offset in minutes of a +HH:MM / -HH:MM suffix, or NotADate
ParseOffset(str) ==
    IF ~(/\ Len(str) = 6 /\ str[1] \in {"+", "-"} /\ str[4] = ":"
         /\ IsDigits(SubSeq(str, 2, 3)) /\ IsDigits(SubSeq(str, 5, 6)))
    THEN NotADate
    ELSE LET hours == Number(SubSeq(str, 2, 3))
             minutes == Number(SubSeq(str, 5, 6))
         IN  IF hours > 23 \/ minutes > 59 THEN NotADate
             ELSE [ok |-> TRUE,
                   offset |-> (IF str[1] = "-" THEN -1 ELSE 1) * (60 * hours + minutes)]

\* datetime.fromisoformat(str) on YYYY-MM-DD[THH:MM[:SS[.fff[fff]]][+HH:MM|Z]];
\* a trailing Z is accepted from Python 3.11 on and a ValueError before
\* (acceptsZ says which interpreter runs); NotADate stands for ValueError
fromisoformat(str, acceptsZ) ==
    LET n == Len(str)
        dateShape ==
            /\ n >= 10
            /\ IsDigits(SubSeq(str, 1, 4)) /\ str[5] = "-"
            /\ IsDigits(SubSeq(str, 6, 7)) /\ str[8] = "-"
            /\ IsDigits(SubSeq(str, 9, 10))
            /\ n > 10 => (n > 11 /\ str[11] = "T")
    IN  IF ~dateShape THEN NotADate
        ELSE
          LET year == Number(SubSeq(str, 1, 4))
              month == Number(SubSeq(str, 6, 7))
              day == Number(SubSeq(str, 9, 10))
              rest == SubSeq(str, 12, n)
              hasZ == rest # <<>> /\ rest[Len(rest)] = "Z"
              hasOffset == Len(rest) > 6 /\ rest[Len(rest) - 5] \in {"+", "-"}
              timeStr == IF hasZ THEN SubSeq(rest, 1, Len(rest) - 1)
                         ELSE IF hasOffset THEN SubSeq(rest, 1, Len(rest) - 6)
                         ELSE rest
              time == IF n = 10
                      THEN [ok |-> TRUE, hour |-> 0, minute |-> 0,
                            second |-> 0, micro |-> 0]
                      ELSE ParseTime(timeStr)
              tz == IF hasZ THEN (IF acceptsZ THEN [ok |-> TRUE, offset |-> 0]
                                  ELSE NotADate)
                    ELSE IF hasOffset
                    THEN ParseOffset(SubSeq(rest, Len(rest) - 5, Len(rest)))
                    ELSE [ok |-> TRUE, offset |-> 0]
          IN  IF \/ year < 1 \/ month \notin 1..12
                 \/ day \notin 1..DaysInMonth(year, month)
                 \/ ~time.ok \/ ~tz.ok
              THEN NotADate
              ELSE [ok |-> TRUE, aware |-> hasZ \/ hasOffset,
                    year |-> year, month |-> month, day |-> day,
                    hour |-> time.hour, minute |-> time.minute,
                    second |-> time.second, micro |-> time.micro,
                    offset |-> tz.offset]

\* the date one day later / earlier
NextDay(dt) ==
    IF dt.day < DaysInMonth(dt.year, dt.month)
    THEN [dt EXCEPT !.day = dt.day + 1]
    ELSE IF dt.month < 12
    THEN [dt EXCEPT !.day = 1, !.month = dt.month + 1]
    ELSE [dt EXCEPT !.day = 1, !.month = 1, !.year = dt.year + 1]

PrevDay(dt) ==
    IF dt.day > 1
    THEN [dt EXCEPT !.day = dt.day - 1]
    ELSE IF dt.month > 1
    THEN [dt EXCEPT !.day = DaysInMonth(dt.year, dt.month - 1),
                    !.month = dt.month - 1]
    ELSE [dt EXCEPT !.day = 31, !.month = 12, !.year = dt.year - 1]

\* dt.astimezone(pytz.UTC): a datetime without zone info is taken to be in the
\* server's local zone (localOffset minutes east of UTC)
astimezone_ignores_zone(dt, localOffset) ==
    [dt EXCEPT !.aware = TRUE, !.offset = 0]
astimezone_utc(dt, localOffset) ==
    LET offset == IF dt.aware THEN dt.offset ELSE localOffset
        minutes == 60 * dt.hour + dt.minute - offset
        shifted == IF minutes < 0 THEN PrevDay(dt)
                   ELSE IF minutes >= 1440 THEN NextDay(dt) ELSE dt
        m == minutes % 1440
    IN  [shifted EXCEPT !.hour = m \div 60, !.minute = m % 60,
                        !.aware = TRUE, !.offset = 0]

\* utc_dt.isoformat(timespec='milliseconds')
isoformat_milliseconds(dt) ==
    Pad(dt.year, 4) \o <<"-">> \o Pad(dt.month, 2) \o <<"-">> \o Pad(dt.day, 2)
    \o <<"T">> \o Pad(dt.hour, 2) \o <<":">> \o Pad(dt.minute, 2)
    \o <<":">> \o Pad(dt.second, 2) \o <<".">> \o Pad(dt.micro \div 1000, 3)
    \o <<"+", "0", "0", ":", "0", "0">>

\* str.replace(old, new): every occurrence, left to right
RECURSIVE Replace(_, _, _)
Replace(str, old, new) ==
    IF Len(str) < Len(old) THEN str
    ELSE IF SubSeq(str, 1, Len(old)) = old
    THEN new \o Replace(SubSeq(str, Len(old) + 1, Len(str)), old, new)
    ELSE <<Head(str)>> \o Replace(Tail(str), old, new)

\* lines 203-205: the text sent for a supplied date, or NotADate
to_utc_z(str, server) ==
    LET local_dt == fromisoformat(str, server.acceptsZ)
    IN  IF ~local_dt.ok THEN NotADate
        ELSE [ok |-> TRUE,
              v |-> Replace(isoformat_milliseconds(
                                astimezone_utc(local_dt, server.localOffset)),
                            <<"+", "0", "0", ":", "0", "0">>, <<"Z">>)]

----------------------------------------------------------------------------
(* GET /locations *)

DefaultFrom == <<"2", "0", "1", "5", "-", "0", "1", "-", "0", "1", "T", "0", "1", ":", "0", "0", ":", "0", "0", ".", "0", "0", "0", "2", "Z">>
DefaultTo == <<"2", "0", "9", "9", "-", "1", "2", "-", "3", "1", "T", "2", "3", ":", "5", "9", ":", "5", "9", ".", "0", "0", "0", "Z">>

\* request.args.get(key): None when the query string has no such key
ArgsGet(args, key) == DictGet(args, key, JNull)

\* lines 191 and 202-205: params["from"], or NotADate when fromisoformat raises
from_param(start_date, server) ==
    IF Falsy(start_date) THEN [ok |-> TRUE, v |-> DefaultFrom]
    ELSE to_utc_z(start_date.v, server)

\* lines 192 and 207-210: params["to"]
to_param_unconverted(end_date, server) ==
    IF Falsy(end_date) THEN [ok |-> TRUE, v |-> DefaultTo]
    ELSE [ok |-> TRUE, v |-> end_date.v]
to_param(end_date, server) ==
    IF Falsy(end_date) THEN [ok |-> TRUE, v |-> DefaultTo]
    ELSE to_utc_z(end_date.v, server)

\* line 212: session.get("username", "").lower()
locations_user_from_query(s, args) ==
    lower(DictGet(args, "user", JStr(<<>>)).v)
locations_user(s, args) ==
    lower(DictGet(s, "username", JStr(<<>>)).v)

\* lines 190-215: the query parameters
locations_params(s, args, from, to) ==
    LET device == ArgsGet(args, "device")
        fixed == [x \in {"from", "to", "format", "user"} |->
                    CASE x = "from" -> JStr(from)
                      [] x = "to" -> JStr(to)
                      [] x = "format" -> JStr(<<"g", "e", "o", "j", "s", "o", "n">>)
                      [] x = "user" -> JStr(locations_user(s, args))]
    IN  IF Falsy(device) THEN fixed ELSE DictSet(fixed, "device", device)

LocationsCall(s, params) ==
    [endpoint |-> "/api/0/locations", via |-> "basic-auth",
     user |-> SessionGet(s, "username"), pass |-> SessionGet(s, "password"),
     params |-> params]

get_locations(s, args, outcome, server) ==
    LET from == from_param(ArgsGet(args, "startdate"), server)
        to == to_param(ArgsGet(args, "enddate"), server)
    IN  IF ~from.ok \/ ~to.ok
        THEN \* ValueError, caught by `except Exception`
             Result(s, InternalError, NoCall)
        ELSE
          LET c == LocationsCall(s, locations_params(s, args, from.v, to.v))
          IN  IF outcome.kind = "exception"
              THEN Result(s, InternalError, c)
              ELSE IF RaisesForStatus(outcome)
              THEN Result(s, InternalError, c)
              ELSE IF ~outcome.isJson
              THEN Result(s, InternalError, c)
              ELSE Result(s, Jsonify(outcome.body, 200), c)

----------------------------------------------------------------------------
(* GET /proxy *)

\* line 27: WHIB_DEFAULT_OSRM_URL of the deployment
DEFAULT_OSRM_URL == <<"h", "t", "t", "p", ":", "/", "/", "o", "s", "r", "m", ".", "l", "o", "c", "a", "l", ":", "5", "0", "0", "0">>

OverviewFalse == <<"?", "o", "v", "e", "r", "v", "i", "e", "w", "=", "f", "a", "l", "s", "e">>

\* str.endswith(suffix)
endswith(str, suffix) ==
    /\ Len(str) >= Len(suffix)
    /\ SubSeq(str, Len(str) - Len(suffix) + 1, Len(str)) = suffix

\* lines 283-287: f"{base}/route/v1/{coords}"
target_url(osrm_url, coords) ==
    (IF ~Falsy(osrm_url) THEN osrm_url.v ELSE DEFAULT_OSRM_URL)
    \o <<"/", "r", "o", "u", "t", "e", "/", "v", "1", "/">> \o coords

\* lines 290-291
without_overview(url) ==
    IF endswith(url, OverviewFalse) THEN Replace(url, OverviewFalse, <<>>) ELSE url

\* requests.get(target_url); built is target_url as lines 283-287 leave it
ProxyCall(built, url) ==
    [endpoint |-> "osrm", via |-> "get", user |-> JNull, pass |-> JNull,
     built |-> built, url |-> url]

proxy_route(s, args, outcome) ==
    LET osrm_url == ArgsGet(args, "osrmURL")
        coords == ArgsGet(args, "coords")
    IN  IF coords = JNull
        THEN \* None[1:] raises TypeError, nothing catches it
             Result(s, FlaskError(500), NoCall)
        ELSE
          LET built == target_url(osrm_url, SubSeq(coords.v, 2, Len(coords.v)))
              c == ProxyCall(built, without_overview(built))
          IN  IF outcome.kind = "exception"
              THEN Result(s, FlaskError(500), c)
              ELSE IF ~outcome.isJson
              THEN Result(s, FlaskError(500), c)
              ELSE Result(s, Jsonify(outcome.body, 200), c)

----------------------------------------------------------------------------
(* Inputs *)

\* how many spaces the generated usernames carry on each side
MaxPad == 1

S_ab_cd == <<"a","b"," ","c","d">>
S_ab_cd_12 == <<"a","b","_","c","d","-","1","2">>
S_ab == <<"a","b">>
S_bang == <<"a","!","b">>
S_Bob == <<"B","o","b">>
S_short1A == <<"s","h","o","r","t","1","A">>
S_alllowercase123 == <<"a","l","l","l","o","w","e","r","c","a","s","e","1","2","3">>
S_ALLUPPERCASE123 == <<"A","L","L","U","P","P","E","R","C","A","S","E","1","2","3">>
S_NoDigitsHereAtAll == <<"N","o","D","i","g","i","t","s","H","e","r","e","A","t","A","l","l">>
S_ValidPass123 == <<"V","a","l","i","d","P","a","s","s","1","2","3">>
S_ValidPass12 == <<"V","a","l","i","d","P","a","s","s","1","2">>
S_hunter2 == <<"h","u","n","t","e","r","2">>

RegisterUsernames ==
    {S_ab_cd, S_ab_cd_12, S_bang, <<>>, <<"\t">>, S_ab \o <<"\n">>,
     <<"\n">> \o S_ab \o <<"\n", "c">>,
     Rep("a", MaxUsernameLen), Rep("a", MaxUsernameLen + 1)}
    \cup {Rep(" ", i) \o S_ab \o Rep(" ", j) : i, j \in 0..MaxPad}

RegisterPasswords ==
    {S_short1A, S_alllowercase123, S_ALLUPPERCASE123, S_NoDigitsHereAtAll,
     S_ValidPass123, S_ValidPass12, <<>>, <<" ">> \o S_ValidPass123}

\* a JSON body with the given fields present
Fields(username, password) ==
    [x \in {"username", "password"} |->
        IF x = "username" THEN JStr(username) ELSE JStr(password)]
Only(key, str) == [x \in {key} |-> JStr(str)]

RegisterPayloads ==
    {Fields(u, p) : u \in RegisterUsernames, p \in RegisterPasswords}
    \cup {EmptyDict, Only("username", S_ab), Only("password", S_ValidPass123)}

\* the registrations the lifecycle runs through
SomeRegisterPayloads ==
    {Fields(S_ab_cd_12, S_ValidPass123), Fields(<<" ">> \o S_ab, S_ValidPass123),
     Fields(S_ab_cd, S_ValidPass123), Fields(S_ab, S_short1A), EmptyDict}

LoginForms ==
    {Fields(u, p) : u \in {S_Bob, S_ab}, p \in {S_ValidPass123, S_hunter2}}
    \cup {Fields(<<>>, <<>>), Only("username", S_Bob)}

DeletePayloads ==
    {EmptyDict, Only("username", S_Bob), Only("password", <<>>),
     Only("password", S_ValidPass123), Only("password", S_hunter2)}

CircleSizes == {JNum(<<"5","0">>), JNum(<<"1","0">>), JNull}
OsrmURLs == {JStr(<<"http://x">>), JNull}
SettingsPayloads ==
    {Settings(c, o) : c \in CircleSizes, o \in OsrmURLs}
    \cup {EmptyDict, [x \in {"circleSize"} |-> JNum(<<"5","0">>)]}

BackendStatuses == {200, 201, 403}
BodyA == Msg("message", <<"done">>)
BodyB == Msg("error", <<"Username already exists">>)
RawBody == Msg("raw", <<"<html>502 Bad Gateway</html>">>)

Outcomes ==
    {TransportFailure}
    \cup {BackendResponse(st, TRUE, BodyA) : st \in BackendStatuses}
    \cup {BackendResponse(st, FALSE, RawBody) : st \in BackendStatuses}
    \cup {BackendResponse(403, TRUE, BodyB)}

----------------------------------------------------------------------------
(* State machine: one action per request handled *)

NoPair == [some |-> FALSE, user |-> JNull, pass |-> JNull]

\* waitress serves requests on a pool of threads (line 319); the model follows
\* this many requests at a time
MaxInflight == 2
Idle == [handler |-> "none", method |-> "GET", data |-> EmptyDict, read |-> EmptyDict]
NoneInFlight == [i \in 1..MaxInflight |-> Idle]

\* a server in the UTC zone running Python 3.11 or later
UtcServer == [localOffset |-> 0, acceptsZ |-> TRUE]
NoSettings == Settings(JNull, JNull)

Request(handler, method, data, outcome) ==
    [handler |-> handler, method |-> method, data |-> data, outcome |-> outcome]

\* the backend said yes to a login (200) or a registration (201)
BackendAccepted(handler, c, outcome) ==
    /\ c # NoCall
    /\ outcome.kind = "response"
    /\ \/ handler = "login" /\ outcome.status = 200
       \/ handler = "register" /\ outcome.status = 201

\* the backend deleted the account (200)
BackendDeleted(handler, c, outcome) ==
    /\ c # NoCall
    /\ outcome.kind = "response"
    /\ handler = "delete_account" /\ outcome.status = 200

Init ==
    /\ session = EmptyDict
    /\ prev = EmptyDict
    /\ req = Request("none", "GET", EmptyDict, NoOutcome)
    /\ resp = NoResponse
    /\ call = NoCall
    /\ accepted = NoPair
    /\ saved = NoSettings
    /\ signedOut = [creds |-> FALSE, prefs |-> FALSE]
    /\ cleared = FALSE
    /\ inflight = NoneInFlight
    /\ env = UtcServer

\* the request is handled: r is what the handler leaves behind
Handle(handler, method, data, outcome, r) ==
    /\ session' = r.session
    /\ prev' = session
    /\ req' = Request(handler, method, data,
                      IF r.call = NoCall THEN NoOutcome ELSE outcome)
    /\ resp' = r.resp
    /\ call' = r.call
    /\ accepted' = IF BackendAccepted(handler, r.call, outcome)
                   THEN [some |-> TRUE, user |-> r.call.user, pass |-> r.call.pass]
                   ELSE accepted
    /\ saved' = CASE handler = "save_settings" ->
                       Settings(DictGet(data, "circleSize", JNull),
                                DictGet(data, "osrmURL", JNull))
                  [] handler = "sign_out" -> NoSettings
                  [] BackendDeleted(handler, r.call, outcome) -> NoSettings
                  [] OTHER -> saved
    /\ signedOut' =
          [creds |-> IF handler = "sign_out" THEN TRUE
                     ELSE IF BackendAccepted(handler, r.call, outcome) THEN FALSE
                     ELSE signedOut.creds,
           prefs |-> IF handler = "sign_out" THEN TRUE
                     ELSE IF handler = "save_settings" THEN FALSE
                     ELSE signedOut.prefs]
    /\ cleared' = IF handler = "sign_out" \/ BackendDeleted(handler, r.call, outcome)
                  THEN TRUE
                  ELSE IF BackendAccepted(handler, r.call, outcome) THEN FALSE
                  ELSE cleared
    /\ UNCHANGED <<inflight, env>>

SignOut ==
    LET r == sign_out(session)
    IN  Handle("sign_out", "GET", EmptyDict, NoOutcome, r)

Login ==
    \E method \in {"POST", "GET"}, form \in LoginForms :
        IF login(session, method, form, NoOutcome).call = NoCall
        THEN Handle("login", method, form, NoOutcome,
                    login(session, method, form, NoOutcome))
        ELSE \E o \in Outcomes :
                Handle("login", method, form, o, login(session, method, form, o))

\* the backend answers only the requests that reach it
Register(payloads) ==
    \E data \in payloads :
        IF register(session, data, NoOutcome).call = NoCall
        THEN Handle("register", "POST", data, NoOutcome,
                    register(session, data, NoOutcome))
        ELSE \E o \in Outcomes :
                Handle("register", "POST", data, o, register(session, data, o))

RegisterSome == Register(SomeRegisterPayloads)

RegisterAny == Register(RegisterPayloads)

DeleteAccount ==
    \E data \in DeletePayloads :
        IF delete_account(session, data, NoOutcome).call = NoCall
        THEN Handle("delete_account", "POST", data, NoOutcome,
                    delete_account(session, data, NoOutcome))
        ELSE \E o \in Outcomes :
                Handle("delete_account", "POST", data, o,
                       delete_account(session, data, o))

SaveSettings ==
    \E data \in SettingsPayloads :
        LET r == save_settings(session, data)
        IN  Handle("save_settings", "POST", data, NoOutcome, r)

GetSettings ==
    LET r == get_settings(session)
    IN  Handle("get_settings", "GET", EmptyDict, NoOutcome, r)

Next ==
    \/ SignOut
    \/ Login
    \/ RegisterSome
    \/ DeleteAccount
    \/ SaveSettings
    \/ GetSettings

Spec == Init /\ [][Next]_vars

----------------------------------------------------------------------------
(* Registration over the whole input set, from an anonymous session and *)
(* from a session that a login established and that holds preferences   *)

SessionOfBob ==
    save_settings(EstablishSession(EmptyDict, S_Bob, S_hunter2),
                  Settings(JNum(<<"5","0">>), JStr(<<"http://x">>))).session

InitRegister ==
    /\ session \in {EmptyDict, SessionOfBob}
    /\ prev = session
    /\ req = Request("none", "GET", EmptyDict, NoOutcome)
    /\ resp = NoResponse
    /\ call = NoCall
    /\ accepted = IF session = EmptyDict THEN NoPair
                  ELSE [some |-> TRUE, user |-> JStr(S_Bob), pass |-> JStr(S_hunter2)]
    /\ saved = IF session = EmptyDict THEN NoSettings
               ELSE Settings(JNum(<<"5","0">>), JStr(<<"http://x">>))
    /\ signedOut = [creds |-> FALSE, prefs |-> FALSE]
    /\ cleared = FALSE
    /\ inflight = NoneInFlight
    /\ env = UtcServer

NextRegister == RegisterAny

SpecRegister == InitRegister /\ [][NextRegister]_vars
----------------------------------------------------------------------------
(* The device list: a session, and every backend answer to /api/0/last *)

\* longest device list the backend returns
MaxDevices == 3

S_bob == <<"b","o","b">>
S_BOB == <<"B","O","B">>
S_Rob == <<"R","o","b">>

Entry(username, device) ==
    [x \in {"username", "device"} |->
        IF x = "username" THEN JStr(username) ELSE JStr(<<device>>)]

DeviceEntries ==
    {Entry(S_Bob, "phone"), Entry(S_bob, "phone"), Entry(S_BOB, "tablet"),
     Entry(S_Rob, "phone"), Only("device", <<"watch">>)}

RECURSIVE SeqsUpTo(_, _)
SeqsUpTo(S, n) ==
    IF n = 0 THEN {<<>>}
    ELSE LET shorter == SeqsUpTo(S, n - 1)
         IN  shorter \cup {Append(q, e) : q \in shorter, e \in S}

DeviceLists == SeqsUpTo(DeviceEntries, MaxDevices)

DeviceOutcomes ==
    {TransportFailure, BackendResponse(200, FALSE, RawBody)}
    \cup {BackendResponse(200, TRUE, data) : data \in DeviceLists}
    \cup {BackendResponse(st, TRUE, <<Entry(S_Bob, "phone")>>) : st \in {201, 403, 500}}

DeviceSessions ==
    {EmptyDict}
    \cup {EstablishSession(EmptyDict, u, S_hunter2) : u \in {S_Bob, S_bob, S_BOB, S_ab, <<>>}}

InitDevices ==
    /\ session \in DeviceSessions
    /\ prev = session
    /\ req = Request("none", "GET", EmptyDict, NoOutcome)
    /\ resp = NoResponse
    /\ call = NoCall
    /\ accepted = IF session = EmptyDict THEN NoPair
                  ELSE [some |-> TRUE, user |-> session["username"],
                        pass |-> session["password"]]
    /\ saved = NoSettings
    /\ signedOut = [creds |-> FALSE, prefs |-> FALSE]
    /\ cleared = FALSE
    /\ inflight = NoneInFlight
    /\ env = UtcServer

GetUsersDevices ==
    \E o \in DeviceOutcomes :
        LET r == get_users_devices(session, o)
        IN  Handle("usersdevices", "GET", EmptyDict, o, r)

NextDevices == GetUsersDevices

SpecDevices == InitDevices /\ [][NextDevices]_vars

----------------------------------------------------------------------------
(* Location history: a session, a server, and every query in Queries *)

\* what an <input type="datetime-local"> sends
D_noon == <<"2", "0", "2", "4", "-", "0", "3", "-", "1", "0", "T", "1", "2", ":", "3", "0">>
D_late == <<"2", "0", "2", "4", "-", "0", "3", "-", "1", "0", "T", "2", "3", ":", "4", "5", ":", "1", "0">>
D_micro == <<"2", "0", "2", "4", "-", "0", "3", "-", "1", "0", "T", "0", "0", ":", "1", "5", ":", "0", "0", ".", "1", "2", "3", "4", "5", "6">>
D_leap == <<"2", "0", "2", "4", "-", "0", "3", "-", "0", "1", "T", "0", "0", ":", "3", "0">>
D_newyear == <<"2", "0", "2", "4", "-", "1", "2", "-", "3", "1", "T", "2", "3", ":", "3", "0", ":", "5", "9", ".", "9", "9", "9">>
D_dateonly == <<"2", "0", "2", "4", "-", "0", "3", "-", "1", "0">>
\* with zone info
D_utc == <<"2", "0", "2", "4", "-", "0", "3", "-", "1", "0", "T", "1", "2", ":", "3", "0", ":", "0", "0", "+", "0", "0", ":", "0", "0">>
D_utc_z == <<"2", "0", "2", "4", "-", "0", "3", "-", "1", "0", "T", "1", "2", ":", "3", "0", ":", "0", "0", "Z">>
D_india == <<"2", "0", "2", "4", "-", "0", "3", "-", "1", "0", "T", "0", "2", ":", "1", "0", ":", "0", "0", ".", "2", "5", "0", "+", "0", "5", ":", "3", "0">>
D_newyork == <<"2", "0", "2", "3", "-", "1", "2", "-", "3", "1", "T", "2", "0", ":", "0", "0", ":", "0", "0", "-", "0", "5", ":", "0", "0">>
\* not date-times
D_word == <<"y", "e", "s", "t", "e", "r", "d", "a", "y">>
D_month13 == <<"2", "0", "2", "4", "-", "1", "3", "-", "0", "1", "T", "0", "0", ":", "0", "0">>
D_feb29 == <<"2", "0", "2", "3", "-", "0", "2", "-", "2", "9", "T", "1", "0", ":", "0", "0">>

Dates ==
    {D_noon, D_late, D_micro, D_leap, D_newyear, D_dateonly, D_utc, D_utc_z,
     D_india, D_newyork, D_word, D_month13, D_feb29, <<>>}

\* a query string: the keys that are present, each with a string value
Query(pairs) == [k \in {p[1] : p \in pairs} |->
                    JStr((CHOOSE p \in pairs : p[1] = k)[2])]

Queries ==
    {EmptyDict}
    \cup {Query({<<"startdate", d>>}) : d \in Dates}
    \cup {Query({<<"enddate", d>>}) : d \in Dates}
    \cup {Query({<<"startdate", d>>, <<"enddate", e>>}) :
            d \in {D_noon, D_micro, D_word, <<>>},
            e \in {D_late, D_india, D_feb29, <<>>}}
    \cup {Query({<<"device", dev>>}) : dev \in {<<>>, <<"p", "h", "o", "n", "e">>, <<"P", "i", "x", "e", "l", " ", "7">>}}
    \cup {Query({<<"device", <<"p", "h", "o", "n", "e">>>>, <<"user", <<"m", "a", "l", "l", "o", "r", "y">>>>,
                 <<"startdate", d>>}) : d \in {D_noon, D_word}}
    \cup {Query({<<"user", <<"M", "a", "l", "l", "o", "r", "y">>>>})}

GeoBody == Msg("type", <<"F", "e", "a", "t", "u", "r", "e", "C", "o", "l", "l", "e", "c", "t", "i", "o", "n">>)

LocationOutcomes ==
    {TransportFailure, BackendResponse(200, FALSE, RawBody),
     BackendResponse(502, FALSE, RawBody)}
    \cup {BackendResponse(st, TRUE, GeoBody) : st \in {200, 201, 401, 404, 500}}

\* minutes east of UTC of the server's zone
LocalOffsets == {0 - 300, 0, 330}
Servers == [localOffset : LocalOffsets, acceptsZ : BOOLEAN]

LocationSessions ==
    {EmptyDict, SessionOfBob, EstablishSession(EmptyDict, S_BOB, S_ValidPass123)}

InitLocations ==
    /\ session \in LocationSessions
    /\ prev = session
    /\ req = Request("none", "GET", EmptyDict, NoOutcome)
    /\ resp = NoResponse
    /\ call = NoCall
    /\ accepted = IF session = EmptyDict THEN NoPair
                  ELSE [some |-> TRUE, user |-> session["username"],
                        pass |-> session["password"]]
    /\ saved = Settings(SessionGet(session, "circle_size"),
                        SessionGet(session, "osrm_url"))
    /\ signedOut = [creds |-> FALSE, prefs |-> FALSE]
    /\ cleared = FALSE
    /\ inflight = NoneInFlight
    /\ env \in Servers

\* every backend outcome for the queries without dates, the 200 for the others
OutcomesFor(args) ==
    IF DOMAIN args \cap {"startdate", "enddate"} = {} THEN LocationOutcomes
    ELSE {BackendResponse(200, TRUE, GeoBody)}

GetLocations ==
    \E args \in Queries :
        LET probe == get_locations(session, args, NoOutcome, env)
        IN  \E o \in (IF probe.call = NoCall THEN {NoOutcome} ELSE OutcomesFor(args)) :
                LET r == get_locations(session, args, o, env)
                IN  Handle("locations", "GET", args, o, r)

UsersDevices ==
    \E o \in {TransportFailure, BackendResponse(200, FALSE, RawBody)}
             \cup {BackendResponse(st, TRUE, <<Entry(S_Bob, "phone"), Entry(S_Rob, "phone")>>) :
                     st \in {200, 201, 401, 404, 500}} :
        LET r == get_users_devices(session, o)
        IN  Handle("usersdevices", "GET", EmptyDict, o, r)

NextLocations == GetLocations \/ UsersDevices

SpecLocations == InitLocations /\ [][NextLocations]_vars

----------------------------------------------------------------------------
(* The routing proxy: every query in ProxyQueries *)

P_coords == <<"/", "5", "2", ".", "1", ",", "1", "3", ".", "4", ";", "5", "2", ".", "2", ",", "1", "3", ".", "5">>
P_coords_overview == <<"/", "5", "2", ".", "1", ",", "1", "3", ".", "4", ";", "5", "2", ".", "2", ",", "1", "3", ".", "5", "?", "o", "v", "e", "r", "v", "i", "e", "w", "=", "f", "a", "l", "s", "e">>
P_coords_bare == <<"5", "2", ".", "1", ",", "1", "3", ".", "4", ";", "5", "2", ".", "2", ",", "1", "3", ".", "5", "?", "o", "v", "e", "r", "v", "i", "e", "w", "=", "f", "a", "l", "s", "e">>
P_coords_steps == <<"/", "5", "2", ".", "1", ",", "1", "3", ".", "4", ";", "5", "2", ".", "2", ",", "1", "3", ".", "5", "?", "o", "v", "e", "r", "v", "i", "e", "w", "=", "f", "a", "l", "s", "e", "&", "s", "t", "e", "p", "s", "=", "t", "r", "u", "e">>
P_coords_twice == <<"/", "5", "2", ".", "1", ",", "1", "3", ".", "4", "?", "o", "v", "e", "r", "v", "i", "e", "w", "=", "f", "a", "l", "s", "e", ";", "5", "2", ".", "2", ",", "1", "3", ".", "5", "?", "o", "v", "e", "r", "v", "i", "e", "w", "=", "f", "a", "l", "s", "e">>
P_osrm == <<"h", "t", "t", "p", ":", "/", "/", "o", "s", "r", "m", ".", "e", "x", "a", "m", "p", "l", "e">>
P_osrm_overview == <<"h", "t", "t", "p", ":", "/", "/", "o", "s", "r", "m", ".", "e", "x", "a", "m", "p", "l", "e", "/", "r", "?", "o", "v", "e", "r", "v", "i", "e", "w", "=", "f", "a", "l", "s", "e">>

ProxyCoords ==
    {P_coords, P_coords_overview, P_coords_bare, P_coords_steps, P_coords_twice,
     <<>>, <<"/">>, <<"x", "?", "o", "v", "e", "r", "v", "i", "e", "w", "=", "f", "a", "l", "s", "e">>, <<"/">> \o OverviewFalse \o OverviewFalse}
ProxyOsrmURLs == {P_osrm, P_osrm_overview, <<>>, OverviewFalse}

ProxyQueries ==
    {EmptyDict}
    \cup {Query({<<"osrmURL", P_osrm>>})}
    \cup {Query({<<"coords", c>>}) : c \in ProxyCoords}
    \cup {Query({<<"osrmURL", u>>, <<"coords", c>>}) : u \in ProxyOsrmURLs, c \in ProxyCoords}

RouteBody == Msg("code", <<"O", "k">>)
ProxyOutcomes ==
    {TransportFailure, BackendResponse(200, FALSE, RawBody),
     BackendResponse(200, TRUE, RouteBody), BackendResponse(400, TRUE, RouteBody)}

InitProxy ==
    /\ session \in {EmptyDict, SessionOfBob}
    /\ prev = session
    /\ req = Request("none", "GET", EmptyDict, NoOutcome)
    /\ resp = NoResponse
    /\ call = NoCall
    /\ accepted = IF session = EmptyDict THEN NoPair
                  ELSE [some |-> TRUE, user |-> session["username"],
                        pass |-> session["password"]]
    /\ saved = Settings(SessionGet(session, "circle_size"),
                        SessionGet(session, "osrm_url"))
    /\ signedOut = [creds |-> FALSE, prefs |-> FALSE]
    /\ cleared = FALSE
    /\ inflight = NoneInFlight
    /\ env = UtcServer

ProxyRoute ==
    \E args \in ProxyQueries :
        LET probe == proxy_route(session, args, NoOutcome)
        IN  \E o \in (IF probe.call = NoCall THEN {NoOutcome} ELSE ProxyOutcomes) :
                LET r == proxy_route(session, args, o)
                IN  Handle("proxy", "GET", args, o, r)

NextProxy == ProxyRoute

SpecProxy == InitProxy /\ [][NextProxy]_vars

----------------------------------------------------------------------------
(* Concurrent requests of one browser: the variable session is the cookie   *)
(* the browser holds.  A request reads it when it begins, runs its handler  *)
(* on what it read, and when it ends the response may carry a new cookie,   *)
(* which replaces the browser's whatever it is by then.                     *)

ConcurrentRequests ==
    {[handler |-> "sign_out", method |-> "GET", data |-> EmptyDict],
     [handler |-> "get_settings", method |-> "GET", data |-> EmptyDict],
     [handler |-> "login", method |-> "POST", data |-> Fields(S_Bob, S_hunter2)],
     [handler |-> "register", method |-> "POST",
      data |-> Fields(S_ab_cd_12, S_ValidPass123)],
     [handler |-> "delete_account", method |-> "POST",
      data |-> Only("password", S_hunter2)],
     [handler |-> "save_settings", method |-> "POST",
      data |-> Settings(JNum(<<"5","0">>), JStr(<<"http://x">>))]}

ConcurrentOutcomes ==
    {TransportFailure} \cup {BackendResponse(st, TRUE, BodyA) : st \in BackendStatuses}

\* the handler of the request f, run on the session it read
Run(f, outcome) ==
    CASE f.handler = "sign_out" -> sign_out(f.read)
      [] f.handler = "get_settings" -> get_settings(f.read)
      [] f.handler = "login" -> login(f.read, f.method, f.data, outcome)
      [] f.handler = "register" -> register(f.read, f.data, outcome)
      [] f.handler = "delete_account" -> delete_account(f.read, f.data, outcome)
      [] f.handler = "save_settings" -> save_settings(f.read, f.data)

\* the handler wrote to the session (lines 52, 82-84, 112-114, 146, 164-166)
Modified(f, r, outcome) ==
    \/ f.handler \in {"sign_out", "save_settings"}
    \/ /\ r.call # NoCall /\ outcome.kind = "response"
       /\ \/ f.handler = "login" /\ ~login_rejected(outcome)
          \/ f.handler = "register" /\ register_created(outcome)
          \/ f.handler = "delete_account" /\ delete_cleared(outcome)

\* the cookie the response carries, if any: Flask sends the whole session when
\* the handler wrote to it, and again on every request of a permanent
\* session; an emptied session deletes the cookie
CookieAfter(f, r, outcome, cookie) ==
    IF Modified(f, r, outcome) \/ "_permanent" \in DOMAIN r.session
    THEN r.session
    ELSE cookie

Begin ==
    \E i \in 1..MaxInflight, q \in ConcurrentRequests :
        /\ inflight[i] = Idle
        /\ inflight' = [inflight EXCEPT ![i] =
                            [handler |-> q.handler, method |-> q.method,
                             data |-> q.data, read |-> session]]
        /\ UNCHANGED <<session, prev, req, resp, call, accepted, saved, signedOut,
                       cleared, env>>

Finish ==
    \E i \in 1..MaxInflight :
        /\ inflight[i] # Idle
        /\ LET f == inflight[i]
           IN  \E o \in (IF Run(f, NoOutcome).call = NoCall THEN {NoOutcome}
                         ELSE ConcurrentOutcomes) :
                 LET r == Run(f, o)
                 IN  /\ session' = CookieAfter(f, r, o, session)
                     /\ prev' = f.read
                     /\ req' = Request(f.handler, f.method, f.data, o)
                     /\ resp' = r.resp
                     /\ call' = r.call
                     /\ accepted' =
                          IF BackendAccepted(f.handler, r.call, o)
                          THEN [some |-> TRUE, user |-> r.call.user, pass |-> r.call.pass]
                          ELSE accepted
                     /\ cleared' =
                          IF f.handler = "sign_out" \/ BackendDeleted(f.handler, r.call, o)
                          THEN TRUE
                          ELSE IF BackendAccepted(f.handler, r.call, o) THEN FALSE
                          ELSE cleared
                     /\ inflight' = [inflight EXCEPT ![i] = Idle]
                     /\ UNCHANGED <<saved, signedOut, env>>

NextConcurrent == Begin \/ Finish

SpecConcurrent == Init /\ [][NextConcurrent]_vars

----------------------------------------------------------------------------
(* Properties of the credential lifecycle *)

HasCredentials(s) == {"username", "password"} \subseteq DOMAIN s
NoCredentials(s) == {"username", "password"} \cap DOMAIN s = {}

\* the last request was a POST /login that reached the validation probe
LoginProbed ==
    /\ req.handler = "login"
    /\ req.method = "POST"
    /\ {"username", "password"} \subseteq DOMAIN req.data

\* C1: in every reachable state the session's username and password are both
\* absent, or both present and equal to the pair the backend accepted at the
\* most recent successful login (200) or registration (201).
C1_CredentialsAreTheAcceptedPair ==
    \/ NoCredentials(session)
    \/ /\ HasCredentials(session)
       /\ accepted.some
       /\ session["username"] = accepted.user
       /\ session["password"] = accepted.pass

\* a later accepted login or registration replaced the credentials of an earlier one
C1_Witness ==
    /\ HasCredentials(prev)
    /\ HasCredentials(session)
    /\ session["username"] # prev["username"]
    /\ session["password"] # prev["password"]

\* C2: POST /login sends the submitted pair to the probe and classifies the
\* answer three ways: 200 stores the submitted pair and redirects, any other
\* status answers 401, a transport failure answers 500.
C2_LoginClassifiesProbe ==
    LoginProbed =>
        /\ call = BasicAuthCall("/api/0/last", req.data["username"], req.data["password"])
        /\ req.outcome.kind \in {"exception", "response"}
        /\ req.outcome.kind = "exception" => resp.status = 500
        /\ (req.outcome.kind = "response" /\ req.outcome.status # 200) =>
               resp.status = 401
        /\ (req.outcome.kind = "response" /\ req.outcome.status = 200) =>
               /\ resp = RedirectRoot
               /\ HasCredentials(session)
               /\ session["username"] = req.data["username"]
               /\ session["password"] = req.data["password"]

\* the backend refused the credentials with 403 and the client got 401
C2_Witness ==
    /\ LoginProbed
    /\ req.outcome.kind = "response"
    /\ req.outcome.status = 403
    /\ resp.status = 401

\* C3: a login the backend rejects (non-200) or that fails on transport leaves
\* the session exactly as it was.
C3_RefusedLoginKeepsSession ==
    (LoginProbed /\ ~(req.outcome.kind = "response" /\ req.outcome.status = 200)) =>
        /\ session = prev
        /\ NoCredentials(prev) => NoCredentials(session)

\* an anonymous session whose login was rejected is still anonymous
C3_Witness ==
    /\ LoginProbed
    /\ req.outcome.kind = "response"
    /\ req.outcome.status = 201
    /\ prev = EmptyDict
    /\ session = EmptyDict
----------------------------------------------------------------------------
(* Properties of registration *)

\* the rule of the claim: 1-50 characters, all from [A-Za-z0-9_-]
RuleUsername(str) ==
    /\ Len(str) >= 1
    /\ Len(str) <= 50
    /\ \A i \in 1..Len(str) :
          str[i] \in LowerChars \cup UpperChars \cup DigitChars \cup {"_", "-"}

\* the rule of the claim: at least 12 characters with an uppercase letter, a
\* lowercase letter and a digit
RulePassword(str) ==
    /\ Len(str) >= 12
    /\ \E i \in 1..Len(str) : str[i] \in UpperChars
    /\ \E i \in 1..Len(str) : str[i] \in LowerChars
    /\ \E i \in 1..Len(str) : str[i] \in DigitChars

\* the username and password of the submitted JSON body (empty when missing)
Submitted(key) == DictGet(req.data, key, JStr(<<>>)).v

RegisterHandled == req.handler = "register"
BackendCalled == call # NoCall

\* C4 as stated: the backend is called iff the submitted username and password
\* satisfy the rules; otherwise 400, no backend call, session unchanged.
C4_AsStated ==
    RegisterHandled =>
        /\ BackendCalled <=>
               (RuleUsername(Submitted("username")) /\ RulePassword(Submitted("password")))
        /\ ~BackendCalled => (resp.status = 400 /\ session = prev)

\* C4 amended: the rules apply to the username with surrounding whitespace
\* stripped, which is also the username sent to the backend; a failed check
\* answers 400 without a backend call and leaves the session unchanged; the
\* examples of the claim are rejected and accepted as it says.
C4_RegisterValidatesStripped ==
    RegisterHandled =>
        /\ BackendCalled <=>
               (RuleUsername(strip(Submitted("username")))
                    /\ RulePassword(Submitted("password")))
        /\ BackendCalled =>
               call = JsonCall("/api/register", JStr(strip(Submitted("username"))),
                               JStr(Submitted("password")))
        /\ ~BackendCalled =>
               /\ resp.status = 400
               /\ resp.kind = "json"
               /\ DOMAIN resp.body = {"error"}
               /\ session = prev
        /\ Submitted("username") = S_ab_cd => ~BackendCalled
        /\ Submitted("password") \in {S_short1A, S_alllowercase123} => ~BackendCalled
        /\ req.data = Fields(S_ab_cd_12, S_ValidPass123) => BackendCalled

\* a username that passes only because it is stripped reached the backend
C4_Witness ==
    /\ RegisterHandled
    /\ Submitted("username") = <<" ">> \o S_ab \o <<" ">>
    /\ BackendCalled
    /\ call.user = JStr(S_ab)

\* C5 as stated: after the local checks pass the session is established iff
\* the backend answers 201, with the pair sent to the backend, and every
\* backend response reaches the caller with its status and body unchanged.
C5_AsStated ==
    (RegisterHandled /\ BackendCalled) =>
        /\ (req.outcome.kind = "response" /\ req.outcome.status = 201) =>
               session = EstablishSession(prev, call.user.v, call.pass.v)
        /\ ~(req.outcome.kind = "response" /\ req.outcome.status = 201) =>
               session = prev
        /\ req.outcome.kind = "response" =>
               resp = Jsonify(req.outcome.body, req.outcome.status)

\* C5 amended: the session is established iff the backend answers 201, with
\* the pair sent to the backend; a backend response whose body is JSON reaches
\* the caller with its status and body unchanged; one whose body is not JSON
\* is answered with 500 and the internal-error message.
C5_RegisterEstablishesOn201 ==
    (RegisterHandled /\ BackendCalled) =>
        /\ (req.outcome.kind = "response" /\ req.outcome.status = 201) =>
               /\ HasCredentials(session)
               /\ session["username"] = call.user
               /\ session["password"] = call.pass
               /\ \A k \in DOMAIN prev \ {"username", "password", "_permanent"} :
                      k \in DOMAIN session /\ session[k] = prev[k]
        /\ ~(req.outcome.kind = "response" /\ req.outcome.status = 201) =>
               session = prev
        /\ (req.outcome.kind = "response" /\ req.outcome.isJson) =>
               /\ resp.status = req.outcome.status
               /\ resp.body = req.outcome.body
        /\ (req.outcome.kind = "response" /\ ~req.outcome.isJson) =>
               resp = InternalError

\* a session that held other credentials and preferences registered a new
\* account: the backend answered 201 with a JSON body, the caller got both,
\* and the session holds the pair that was sent
C5_Witness ==
    /\ RegisterHandled
    /\ BackendCalled
    /\ req.outcome = BackendResponse(201, TRUE, BodyA)
    /\ resp = Jsonify(BodyA, 201)
    /\ HasCredentials(prev)
    /\ prev["username"] # call.user
    /\ session["username"] = call.user
    /\ session["password"] = call.pass
    /\ "circle_size" \in DOMAIN session

----------------------------------------------------------------------------
(* Properties of account deletion *)

DeleteHandled == req.handler = "delete_account"

\* the session the request started from has no username (absent or empty)
NoUsername(s) == "username" \notin DOMAIN s \/ s["username"] = JStr(<<>>)

\* C6: delete-account on a session with no username answers 401 for every
\* payload, makes no backend call and leaves the session unchanged.
C6_DeleteWithoutSessionIs401 ==
    (DeleteHandled /\ NoUsername(prev)) =>
        /\ resp.status = 401
        /\ ~BackendCalled
        /\ session = prev

\* no session, and a payload with a password that would pass everywhere else
C6_Witness ==
    /\ DeleteHandled
    /\ "username" \notin DOMAIN prev
    /\ req.data = Only("password", S_ValidPass123)
    /\ resp.status = 401

----------------------------------------------------------------------------
(* Properties of sign-out and of the preferences *)

\* C8 as stated: from a sign_out until the next accepted login or registration
\* the credentials are absent, get_settings returns both values absent and
\* delete-account answers 401.
C8_AsStated ==
    signedOut.creds =>
        /\ NoCredentials(session)
        /\ req.handler = "get_settings" => resp.body = NoSettings
        /\ DeleteHandled => resp.status = 401

\* C8 amended: sign_out leaves the session empty; from then until the next
\* accepted login or registration the credentials are absent and
\* delete-account answers 401; from then until the next save_settings the
\* preferences are absent and get_settings returns both as null.
C8_SignOutClearsUntilReestablished ==
    /\ req.handler = "sign_out" => session = EmptyDict
    /\ signedOut.creds =>
           /\ NoCredentials(session)
           /\ DeleteHandled => resp.status = 401
    /\ signedOut.prefs =>
           /\ {"circle_size", "osrm_url"} \cap DOMAIN session = {}
           /\ req.handler = "get_settings" => resp.body = NoSettings
    /\ (signedOut.creds /\ signedOut.prefs) => session = EmptyDict

\* a session with credentials and preferences was signed out, and a later
\* delete-account with a password was answered 401
C8_Witness ==
    /\ signedOut.creds
    /\ signedOut.prefs
    /\ accepted.some
    /\ saved = NoSettings
    /\ DeleteHandled
    /\ Submitted("password") = S_ValidPass123
    /\ resp.status = 401

\* C9: get_settings returns exactly the two values of the last save_settings
\* on this session since it was last cleared (null for a value never set or
\* not sent), and save_settings always answers 200.
C9_SettingsRoundTrip ==
    /\ req.handler = "save_settings" =>
           /\ resp.status = 200
           /\ SessionGet(session, "circle_size") = DictGet(req.data, "circleSize", JNull)
           /\ SessionGet(session, "osrm_url") = DictGet(req.data, "osrmURL", JNull)
    /\ req.handler = "get_settings" =>
           /\ resp.status = 200
           /\ DOMAIN resp.body = {"circleSize", "osrmURL"}
           /\ resp.body["circleSize"] = saved["circleSize"]
           /\ resp.body["osrmURL"] = saved["osrmURL"]
           /\ session = prev

\* settings saved as 50 and http://x came back from get_settings as such
C9_Witness ==
    /\ req.handler = "get_settings"
    /\ saved = Settings(JNum(<<"5","0">>), JStr(<<"http://x">>))
    /\ resp.body = Settings(JNum(<<"5","0">>), JStr(<<"http://x">>))

----------------------------------------------------------------------------
(* Properties of the device list *)

\* two characters that are equal or are the two cases of one letter
SameLetter(c, d) ==
    \/ c = d
    \/ \E i \in DOMAIN UpperSeq : {c, d} = {UpperSeq[i], LowerSeq[i]}

EqualIgnoringCase(a, b) ==
    /\ Len(a) = Len(b)
    /\ \A i \in 1..Len(a) : SameLetter(a[i], b[i])

\* the username of a backend entry; an entry without one counts as ""
EntryUsername(entry) ==
    IF "username" \in DOMAIN entry THEN entry["username"].v ELSE <<>>

\* the backend answered /usersdevices' call with a list, for a session with a username
DevicesListed ==
    /\ req.handler = "usersdevices"
    /\ req.outcome.kind = "response"
    /\ req.outcome.status = 200
    /\ req.outcome.isJson
    /\ "username" \in DOMAIN session

\* C10: /usersdevices returns exactly the backend entries whose username
\* equals the session username ignoring case, in the backend's order: the
\* k-th matching entry of the backend list is the k-th entry returned.
C10_DevicesAreTheMatchingSubsequence ==
    DevicesListed =>
        LET data == req.outcome.body
            matching == {i \in 1..Len(data) :
                            EqualIgnoringCase(EntryUsername(data[i]),
                                              session["username"].v)}
        IN  /\ resp.status = 200
            /\ Len(resp.body) = Cardinality(matching)
            /\ \A i \in matching :
                   resp.body[Cardinality({j \in matching : j <= i})] = data[i]

\* for session user Bob the list <<BOB/tablet, Rob, bob/phone>> came back as
\* <<BOB/tablet, bob/phone>>
C10_Witness ==
    /\ DevicesListed
    /\ session["username"] = JStr(S_Bob)
    /\ req.outcome.body = <<Entry(S_BOB, "tablet"), Entry(S_Rob, "phone"),
                            Entry(S_bob, "phone")>>
    /\ resp.body = <<Entry(S_BOB, "tablet"), Entry(S_bob, "phone")>>

----------------------------------------------------------------------------
(* Properties of the location query *)

LocationsHandled == req.handler = "locations"
LocationsSent == LocationsHandled /\ call # NoCall

\* the text of a UTC instant with three fractional digits and a Z:
\* YYYY-MM-DDTHH:MM:SS.fffZ
WellFormedInstant(str) ==
    /\ Len(str) = 24
    /\ \A i \in {1, 2, 3, 4, 6, 7, 9, 10, 12, 13, 15, 16, 18, 19, 21, 22, 23} :
          str[i] \in DigitChars
    /\ str[5] = "-" /\ str[8] = "-" /\ str[11] = "T"
    /\ str[14] = ":" /\ str[17] = ":" /\ str[20] = "." /\ str[24] = "Z"
    /\ Number(SubSeq(str, 6, 7)) \in 1..12
    /\ Number(SubSeq(str, 9, 10)) \in
          1..DaysInMonth(Number(SubSeq(str, 1, 4)), Number(SubSeq(str, 6, 7)))
    /\ Number(SubSeq(str, 12, 13)) < 24
    /\ Number(SubSeq(str, 15, 16)) < 60
    /\ Number(SubSeq(str, 18, 19)) < 60

StatedDefaultFrom == <<"2", "0", "1", "5", "-", "0", "1", "-", "0", "1", "T", "0", "1", ":", "0", "0", ":", "0", "0", ".", "0", "0", "0", "Z">>
StatedDefaultTo == <<"2", "0", "9", "9", "-", "1", "2", "-", "3", "1", "T", "2", "3", ":", "5", "9", ":", "5", "9", ".", "0", "0", "0", "Z">>

Supplied(key) == ~Falsy(ArgsGet(req.data, key))

\* C11, as stated: every from and to sent to the backend by GET /locations is
\* a well-formed UTC instant with three fractional digits and a Z suffix, and
\* without a startdate / enddate they are 2015-01-01T01:00:00.000Z and
\* 2099-12-31T23:59:59.000Z.  The code's default from has four fractional
\* digits.
C11_AsStated ==
    LocationsSent =>
        /\ WellFormedInstant(call.params["from"].v)
        /\ WellFormedInstant(call.params["to"].v)
        /\ ~Supplied("startdate") => call.params["from"].v = StatedDefaultFrom
        /\ ~Supplied("enddate") => call.params["to"].v = StatedDefaultTo

SentFrom == call.params["from"].v
SentTo == call.params["to"].v
StartDate == ArgsGet(req.data, "startdate")
EndDate == ArgsGet(req.data, "enddate")

\* C12: in GET /locations from is decided by startdate alone and to by
\* enddate alone, by one and the same conversion: without a startdate
\* (absent or empty) from is the default bound and without an enddate to is the
\* default bound, whatever the other endpoint is; two requests with the same
\* startdate send the same from and two with the same enddate send the same
\* to, whatever else differs; and a date sent as startdate gives the from that
\* it gives as to when sent as enddate.
C12_Step ==
    LocationsSent' =>
        /\ ~Supplied("startdate")' => SentFrom' = DefaultFrom
        /\ ~Supplied("enddate")' => SentTo' = DefaultTo
        /\ (Supplied("startdate")' /\ StartDate' = EndDate') => SentFrom' = SentTo'
        /\ LocationsSent =>
              /\ StartDate' = StartDate => SentFrom' = SentFrom
              /\ EndDate' = EndDate => SentTo' = SentTo
              /\ (Supplied("startdate") /\ StartDate = EndDate') => SentFrom = SentTo'
              /\ (Supplied("enddate") /\ EndDate = StartDate') => SentTo = SentFrom'
C12_EndpointsIndependent == [][C12_Step]_vars

\* both dates supplied and different, both bounds derived; the request before
\* had the same startdate and another enddate
C12_Witness ==
    /\ LocationsSent
    /\ StartDate = JStr(D_noon) /\ EndDate = JStr(D_late)
    /\ SentFrom # DefaultFrom /\ SentTo # DefaultTo /\ SentFrom # SentTo

----------------------------------------------------------------------------
(* Properties of the time conversion *)

RECURSIVE DaysBeforeMonth(_, _)
DaysBeforeMonth(year, month) ==
    IF month = 1 THEN 0
    ELSE DaysBeforeMonth(year, month - 1) + DaysInMonth(year, month - 1)

\* days from 0001-01-01 to the date, in the proleptic Gregorian calendar
Ordinal(year, month, day) ==
    365 * (year - 1) + ((year - 1) \div 4) - ((year - 1) \div 100)
    + ((year - 1) \div 400) + DaysBeforeMonth(year, month) + day

\* a point in time: minutes of UTC since 0001-01-01, seconds, microseconds
Instant(year, month, day, hour, minute, second, micro, offset) ==
    [minute |-> 1440 * Ordinal(year, month, day) + 60 * hour + minute - offset,
     second |-> second, micro |-> micro]

Field(str, a, b) == IF Len(str) >= b THEN Number(SubSeq(str, a, b)) ELSE 0

\* the instant a date-time text YYYY-MM-DD[THH:MM[:SS[.fff[fff]]]] denotes:
\* in the zone it names (Z or +HH:MM / -HH:MM), else in the server's zone
InstantRead(str, localOffset) ==
    LET n == Len(str)
        zoned == n > 16 /\ str[n - 5] \in {"+", "-"} /\ str[n - 2] = ":"
        offset == IF str[n] = "Z" THEN 0
                  ELSE IF zoned
                  THEN (IF str[n - 5] = "-" THEN -1 ELSE 1)
                       * (60 * Number(SubSeq(str, n - 4, n - 3))
                          + Number(SubSeq(str, n - 1, n)))
                  ELSE localOffset
        hasSeconds == n >= 19 /\ str[17] = ":"
        hasFraction == hasSeconds /\ n >= 23 /\ str[20] = "."
        micro == IF ~hasFraction THEN 0
                 ELSE IF n >= 26 /\ IsDigits(SubSeq(str, 21, 26))
                 THEN Number(SubSeq(str, 21, 26))
                 ELSE 1000 * Number(SubSeq(str, 21, 23))
    IN  Instant(Number(SubSeq(str, 1, 4)), Number(SubSeq(str, 6, 7)),
                Number(SubSeq(str, 9, 10)), Field(str, 12, 13), Field(str, 15, 16),
                IF hasSeconds THEN Number(SubSeq(str, 18, 19)) ELSE 0, micro, offset)

\* the instant of a text sent to the backend
InstantSent(str) == InstantRead(str, 0)

WholeMilliseconds(instant) ==
    [instant EXCEPT !.micro = 1000 * (instant.micro \div 1000)]

\* the inputs that are no date-times, and the UTC-zoned ones written with Z
Unparsable == {D_word, D_month13, D_feb29}
ZSuffixed == {D_utc_z}

\* C13, as stated: a date-time without zone info is read as server-local time, a
\* zoned one in its own zone (a UTC-zoned one round-trips), and what is sent is
\* that very instant; only an input that is no date-time makes /locations
\* answer the error without a backend request.
C13_AsStated ==
    LocationsHandled =>
        IF \/ Supplied("startdate") /\ StartDate.v \in Unparsable
           \/ Supplied("enddate") /\ EndDate.v \in Unparsable
        THEN call = NoCall /\ resp = InternalError
        ELSE /\ call # NoCall
             /\ Supplied("startdate") =>
                    InstantSent(SentFrom) = InstantRead(StartDate.v, env.localOffset)
             /\ Supplied("enddate") =>
                    InstantSent(SentTo) = InstantRead(EndDate.v, env.localOffset)

\* the date cannot be read: it is no date-time, or it ends in Z and the
\* interpreter is older than Python 3.11
Rejected(date) ==
    /\ ~Falsy(date)
    /\ date.v \in Unparsable \/ (date.v \in ZSuffixed /\ ~env.acceptsZ)

\* C13, amended: the instant is preserved down to the millisecond (smaller
\* fractions are dropped), a Z-suffixed input is read only from Python 3.11 on,
\* and a date that cannot be read makes /locations answer the opaque 500
\* without a backend request and without touching the session.
C13_InstantKeptToTheMillisecond ==
    LocationsHandled =>
        IF Rejected(StartDate) \/ Rejected(EndDate)
        THEN call = NoCall /\ resp = InternalError /\ session = prev
        ELSE /\ call # NoCall
             /\ Supplied("startdate") =>
                    InstantSent(SentFrom) =
                        WholeMilliseconds(InstantRead(StartDate.v, env.localOffset))
             /\ Supplied("enddate") =>
                    InstantSent(SentTo) =
                        WholeMilliseconds(InstantRead(EndDate.v, env.localOffset))

\* a server 5h30 east of UTC: a local time with microseconds and a zoned time,
\* both sent as instants of the day before
C13_Witness ==
    /\ LocationsSent /\ env.localOffset = 330
    /\ StartDate = JStr(D_micro) /\ EndDate = JStr(D_india)
    /\ SentFrom = <<"2", "0", "2", "4", "-", "0", "3", "-", "0", "9", "T", "1", "8", ":", "4", "5", ":", "0", "0", ".", "1", "2", "3", "Z">>
    /\ SentTo = <<"2", "0", "2", "4", "-", "0", "3", "-", "0", "9", "T", "2", "0", ":", "4", "0", ":", "0", "0", ".", "2", "5", "0", "Z">>

----------------------------------------------------------------------------
(* Properties of the location request *)

\* the session's username, "" for a session without one
SessionUsername == IF "username" \in DOMAIN session THEN session["username"].v ELSE <<>>

\* C14: every /api/0/locations request carries user = the session's username
\* in lower case (always present, whatever the query string says), format =
\* geojson, the session's stored pair as basic-auth credentials, and a device
\* parameter exactly when the query has a non-empty device, with that value;
\* it carries nothing else besides from and to.
C14_LocationRequestShape ==
    LocationsSent =>
        /\ DOMAIN call.params \subseteq {"from", "to", "format", "user", "device"}
        /\ {"from", "to", "format", "user"} \subseteq DOMAIN call.params
        /\ EqualIgnoringCase(call.params["user"].v, SessionUsername)
        /\ \A i \in DOMAIN call.params["user"].v :
              call.params["user"].v[i] \notin UpperChars
        /\ call.params["format"] = JStr(<<"g", "e", "o", "j", "s", "o", "n">>)
        /\ call.via = "basic-auth"
        /\ call.user = SessionGet(session, "username")
        /\ call.pass = SessionGet(session, "password")
        /\ "device" \in DOMAIN call.params <=> Supplied("device")
        /\ Supplied("device") => call.params["device"] = req.data["device"]
        /\ session = prev

\* Bob's session, a query naming another user and a device
C14_Witness ==
    /\ LocationsSent
    /\ session = SessionOfBob
    /\ ArgsGet(req.data, "user") = JStr(<<"m", "a", "l", "l", "o", "r", "y">>)
    /\ call.params["user"] = JStr(S_bob)
    /\ DictGet(call.params, "device", JNull) = JStr(<<"p", "h", "o", "n", "e">>)
    /\ call.user = JStr(S_Bob) /\ call.pass = JStr(S_hunter2)

----------------------------------------------------------------------------
(* Properties of the data endpoints' errors *)

DataHandled == req.handler \in {"locations", "usersdevices"}

\* the backend answered the call with a 2xx status
BackendSucceeded == req.outcome.kind = "response" /\ req.outcome.status \in 200..299

\* the answer is the opaque error: status 500 and exactly the fixed message
OpaqueError == resp = [status |-> 500, kind |-> "json",
                       body |-> [x \in {"error"} |-> JStr(INTERNAL_ERROR_MESSAGE)]]

\* C15: /locations and /usersdevices answer 200 only when the backend call was
\* made and came back with a success status; whenever the call fails on
\* transport or comes back with another status the answer is the opaque error
\* (500 with exactly the fixed message, whatever the backend body was), and
\* these two are the only answers.
C15_DataErrorsAreOpaque ==
    DataHandled =>
        /\ resp.status = 200 => (call # NoCall /\ BackendSucceeded)
        /\ (call # NoCall /\ ~BackendSucceeded) => OpaqueError
        /\ resp.status # 200 => OpaqueError

\* the backend refused /locations with 401 and a JSON body
C15_Witness ==
    /\ req.handler = "locations" /\ call # NoCall
    /\ req.outcome = BackendResponse(401, TRUE, GeoBody)
    /\ resp.status = 500 /\ resp.body # req.outcome.body

----------------------------------------------------------------------------
(* Properties of the errors of register and delete-account *)

\* /register or /delete-account reached its backend call
AccountCallMade == req.handler \in {"register", "delete_account"} /\ call # NoCall

PassedThrough ==
    resp = [status |-> req.outcome.status, kind |-> "json", body |-> req.outcome.body]

\* C16, as stated: a communication failure gives the opaque error, and an
\* answer of the backend with a non-success status is passed on with its
\* status and body.
C16_AsStated ==
    AccountCallMade =>
        /\ req.outcome.kind = "exception" => OpaqueError
        /\ (req.outcome.kind = "response" /\ req.outcome.status \notin 200..299)
              => PassedThrough

\* C16, amended: a communication failure gives the opaque error; an answer of
\* the backend whose body is JSON is passed on with its status and body,
\* whatever the status; an answer whose body is not JSON gives the same opaque
\* error as a communication failure.
C16_JsonAnswersPassThrough ==
    AccountCallMade =>
        /\ req.outcome.kind = "exception" => OpaqueError
        /\ (req.outcome.kind = "response" /\ req.outcome.isJson) => PassedThrough
        /\ (req.outcome.kind = "response" /\ ~req.outcome.isJson) => OpaqueError

\* the backend refused a deletion with 403 and a JSON body, passed on as it is
C16_Witness ==
    /\ req.handler = "delete_account" /\ call # NoCall
    /\ req.outcome = BackendResponse(403, TRUE, BodyB)
    /\ resp.status = 403 /\ resp.body = BodyB
    /\ session = prev

----------------------------------------------------------------------------
(* Properties of the routing proxy *)

ProxySent == req.handler = "proxy" /\ call # NoCall

\* the base URL and the coordinate segment the claims name
StatedBase ==
    IF ~Falsy(ArgsGet(req.data, "osrmURL")) THEN req.data["osrmURL"].v
    ELSE DEFAULT_OSRM_URL
StatedCoords == IF req.data["coords"].v = <<>> THEN <<>> ELSE Tail(req.data["coords"].v)
StatedTarget == StatedBase \o <<"/", "r", "o", "u", "t", "e", "/", "v", "1", "/">> \o StatedCoords

\* str without its last n characters
DropLast(str, n) == SubSeq(str, 1, Len(str) - n)

\* C17, as stated: the URL requested is {baseURL}/route/v1/{coords without
\* its first character}, with baseURL the osrmURL override when present and
\* non-empty and the default otherwise, and with nothing but a trailing
\* ?overview=false taken off it.
C17_AsStated ==
    ProxySent =>
        \/ call.url = StatedTarget
        \/ /\ endswith(StatedTarget, OverviewFalse)
           /\ call.url = DropLast(StatedTarget, 15)

\* C18, as stated: the URL requested is the built URL minus its final 15
\* characters when the built URL ends with ?overview=false, and the built URL
\* unchanged otherwise; no other occurrence of ?overview=false is removed.
C18_AsStated ==
    ProxySent =>
        call.url = IF endswith(call.built, OverviewFalse)
                   THEN DropLast(call.built, 15) ELSE call.built

----------------------------------------------------------------------------
(* Properties of the independence of credentials and preferences *)

\* the keys are the same in both dicts: absent in both, or present with one value
SameAt(s, t, keys) ==
    \A k \in keys : /\ k \in DOMAIN s <=> k \in DOMAIN t
                    /\ k \in DOMAIN s => s[k] = t[k]

\* the last request was a login or a registration that the backend accepted
AcceptedNow == BackendAccepted(req.handler, call, req.outcome)

\* C19: save_settings leaves username and password as they were (absent stays
\* absent, present keeps its value) and writes the two preferences it was
\* sent; a login or registration that the backend accepted writes the
\* submitted pair and leaves circle_size and osrm_url as they were.
C19_CredentialsAndPreferencesIndependent ==
    /\ req.handler = "save_settings" =>
          /\ SameAt(session, prev, {"username", "password"})
          /\ SessionGet(session, "circle_size") = DictGet(req.data, "circleSize", JNull)
          /\ SessionGet(session, "osrm_url") = DictGet(req.data, "osrmURL", JNull)
    /\ AcceptedNow =>
          /\ SameAt(session, prev, {"circle_size", "osrm_url"})
          /\ SessionGet(session, "username") = call.user
          /\ SessionGet(session, "password") = call.pass

\* a login accepted in a session that held preferences and another user's
\* credentials: new pair, same preferences
C19_Witness ==
    /\ AcceptedNow /\ req.handler = "login"
    /\ HasCredentials(prev) /\ prev["username"] # session["username"]
    /\ "circle_size" \in DOMAIN prev /\ prev["circle_size"] # JNull
    /\ session["circle_size"] = prev["circle_size"]

----------------------------------------------------------------------------
(* Properties of concurrent requests *)

\* C20, as stated: under any interleaving of requests of one browser, once the
\* response of a sign_out or of an accepted account deletion has been applied
\* the cookie holds no credentials until a later login or registration is
\* accepted, and the credentials the cookie holds are those of the most recent
\* accepted login or registration.
C20_AsStated ==
    /\ cleared => NoCredentials(session)
    /\ HasCredentials(session) =>
          /\ accepted.some
          /\ session["username"] = accepted.user
          /\ session["password"] = accepted.pass

====
